---- MODULE Spec2Model ----
(***************************************************************************)
(* Model of the SQL query validator of src/main.rs: the recursive WHERE    *)
(* evaluator evaluate_condition and the select/filter/project pipeline     *)
(* evaluate_query, applied to a parsed statement list and an in-memory     *)
(* table.  Text (column values, literals, table names) is a sequence of    *)
(* one-character strings, so that rendering a literal, trimming its quotes *)
(* and lower-casing a name are computed character by character.            *)
(***************************************************************************)
EXTENDS Integers, Sequences, FiniteSets, TLC

VARIABLES table, parsed, pc, result

vars == <<table, parsed, pc, result>>

-----------------------------------------------------------------------------
(* Bounds of the input space.                                              *)

MaxLen == 1

MaxRows == 2

-----------------------------------------------------------------------------
(* Text helpers of the standard library and of sqlparser, as the code      *)
(* calls them.                                                             *)

Quote == "'"

\* str::to_lowercase, character by character.
LowerChar(ch) == IF ch = "T" THEN "t" ELSE IF ch = "U" THEN "u" ELSE ch

to_lowercase(s) == [i \in 1..Len(s) |-> LowerChar(s[i])]

\* str::trim_matches('\''): drops every leading and every trailing quote.
RECURSIVE TrimStart(_)
TrimStart(s) == IF s # <<>> /\ Head(s) = Quote THEN TrimStart(Tail(s)) ELSE s

RECURSIVE TrimEnd(_)
TrimEnd(s) ==
    IF s # <<>> /\ s[Len(s)] = Quote THEN TrimEnd(SubSeq(s, 1, Len(s) - 1)) ELSE s

trim_matches(s) == TrimEnd(TrimStart(s))

\* sqlparser renders a quote inside a string literal as two quotes.
RECURSIVE escape_single_quote_string(_)
escape_single_quote_string(s) ==
    IF s = <<>> THEN <<>>
    ELSE (IF Head(s) = Quote THEN <<Quote, Quote>> ELSE <<Head(s)>>)
             \o escape_single_quote_string(Tail(s))

\* Display of sqlparser::ast::Value: a string literal is rendered inside
\* quotes, a number as its digits.
value_to_string(val) ==
    IF val.kind = "SingleQuotedString"
    THEN <<Quote>> \o escape_single_quote_string(val.s) \o <<Quote>>
    ELSE val.s

\* Display of sqlparser::ast::BinaryOperator: the inequality operator, written
\* != or <> in the query, is rendered as <>.
op_to_string(op) ==
    CASE op = "Eq"    -> "="
      [] op = "NotEq" -> "<>"
      [] op = "Lt"    -> "<"
      [] op = "And"   -> "AND"
      [] op = "Or"    -> "OR"

-----------------------------------------------------------------------------
(* The syntax tree the parser hands over.                                  *)

Identifier(v) == [kind |-> "Identifier", value |-> v]

Value(v) == [kind |-> "Value", val |-> v]

BinaryOp(l, o, r) == [kind |-> "BinaryOp", left |-> l, op |-> o, right |-> r]

Nested(e) == [kind |-> "Nested", expr |-> e]

SingleQuotedString(s) == [kind |-> "SingleQuotedString", s |-> s]

Number(s) == [kind |-> "Number", s |-> s]

Wildcard == [kind |-> "Wildcard"]

UnnamedExpr(e) == [kind |-> "UnnamedExpr", expr |-> e]

ExprWithAlias(e) == [kind |-> "ExprWithAlias", expr |-> e]

Select(f, p, s) == [kind |-> "Select", from |-> f, projection |-> p, selection |-> s]

Query(b) == [kind |-> "Query", body |-> b]

\* Option<&String> as a set with at most one element.
row_get(row, column) == IF column \in DOMAIN row THEN {row[column]} ELSE {}

\* HashMap::insert
row_insert(row, k, v) ==
    [c \in DOMAIN row \cup {k} |-> IF c = k THEN v ELSE row[c]]

EmptyRow == [c \in {} |-> <<>>]

-----------------------------------------------------------------------------
(* evaluate_condition                                                      *)

\* compare with an operator other than = and != accepted instead of rejected.
compare_accepts_other(op, row, column, value) ==
    CASE op_to_string(op) = "="  -> row_get(row, column) = {value}
      [] op_to_string(op) = "!=" -> row_get(row, column) # {value}
      [] OTHER -> TRUE

compare(op, row, column, value) ==
    CASE op_to_string(op) = "="  -> row_get(row, column) = {value}
      [] op_to_string(op) = "!=" -> row_get(row, column) # {value}
      [] OTHER -> FALSE

RECURSIVE evaluate_condition(_, _)
evaluate_condition(expr, row) ==
    IF expr.kind = "BinaryOp"
    THEN IF expr.left.kind = "Identifier" /\ expr.right.kind = "Value"
         THEN compare(expr.op, row, expr.left.value,
                      trim_matches(value_to_string(expr.right.val)))
         ELSE CASE op_to_string(expr.op) = "AND" ->
                       evaluate_condition(expr.left, row)
                           /\ evaluate_condition(expr.right, row)
                [] op_to_string(expr.op) = "OR" ->
                       evaluate_condition(expr.left, row)
                           \/ evaluate_condition(expr.right, row)
                [] OTHER -> FALSE
    ELSE FALSE

-----------------------------------------------------------------------------
(* evaluate_query                                                          *)

Invalid == [panic |-> FALSE, rows |-> <<>>, valid |-> FALSE]

Panic == [panic |-> TRUE, rows |-> <<>>, valid |-> FALSE]

from_is_empty(select) == select.from = <<>>

\* table_name_matches with the table's own name left in its letter case.
table_name_matches_exact(t, select) ==
    to_lowercase(select.from[1].relation) = t.name

table_name_matches(t, select) ==
    to_lowercase(select.from[1].relation) = to_lowercase(t.name)

\* The filter closure: an absent WHERE clause keeps every row.
row_passes(selection, row) ==
    IF selection # <<>> THEN evaluate_condition(selection[1], row) ELSE TRUE

RECURSIVE copy_all(_, _, _)
copy_all(keys, row, new_row) ==
    IF keys = {} THEN new_row
    ELSE LET k == CHOOSE x \in keys : TRUE
         IN  copy_all(keys \ {k}, row, row_insert(new_row, k, row[k]))

\* project_item with an absent column filled in as an empty value.
project_item_fills_absent(item, row, new_row) ==
    CASE item.kind = "Wildcard" -> copy_all(DOMAIN row, row, new_row)
      [] item.kind = "UnnamedExpr" /\ item.expr.kind = "Identifier" ->
             IF row_get(row, item.expr.value) # {}
             THEN row_insert(new_row, item.expr.value, row[item.expr.value])
             ELSE row_insert(new_row, item.expr.value, <<>>)
      [] OTHER -> new_row

project_item(item, row, new_row) ==
    CASE item.kind = "Wildcard" -> copy_all(DOMAIN row, row, new_row)
      [] item.kind = "UnnamedExpr" /\ item.expr.kind = "Identifier" ->
             IF row_get(row, item.expr.value) # {}
             THEN row_insert(new_row, item.expr.value, row[item.expr.value])
             ELSE new_row
      [] OTHER -> new_row

RECURSIVE project_items(_, _, _)
project_items(projection, row, new_row) ==
    IF projection = <<>> THEN new_row
    ELSE project_items(Tail(projection), row,
                       project_item(Head(projection), row, new_row))

project_row(projection, row) == project_items(projection, row, EmptyRow)

\* filter_map that collects the kept rows in reverse order.
RECURSIVE filter_map_reversed(_, _, _)
filter_map_reversed(rows, selection, projection) ==
    IF rows = <<>> THEN <<>>
    ELSE filter_map_reversed(Tail(rows), selection, projection)
             \o (IF row_passes(selection, Head(rows))
                 THEN <<project_row(projection, Head(rows))>>
                 ELSE <<>>)

RECURSIVE filter_map(_, _, _)
filter_map(rows, selection, projection) ==
    IF rows = <<>> THEN <<>>
    ELSE (IF row_passes(selection, Head(rows))
          THEN <<project_row(projection, Head(rows))>>
          ELSE <<>>) \o filter_map(Tail(rows), selection, projection)

\* select_result that reports an empty result as invalid.
select_result_needs_rows(filtered_rows) ==
    [panic |-> FALSE, rows |-> filtered_rows, valid |-> filtered_rows # <<>>]

select_result(filtered_rows) ==
    [panic |-> FALSE, rows |-> filtered_rows, valid |-> TRUE]

evaluate_select(t, select) ==
    IF from_is_empty(select) THEN Invalid
    ELSE IF ~table_name_matches(t, select) THEN Invalid
    ELSE select_result(filter_map(t.rows, select.selection, select.projection))

evaluate_query(t, p) ==
    IF ~p.ok THEN Invalid
    ELSE IF p.ast = <<>> THEN Panic
    ELSE IF p.ast[1].kind = "Query" /\ p.ast[1].body.kind = "Select"
         THEN evaluate_select(t, p.ast[1].body)
         ELSE Invalid

-----------------------------------------------------------------------------
(* The inputs: tables and parse results.                                   *)

Chars == {"1", Quote}

Strings == UNION {[1..n -> Chars] : n \in 0..MaxLen}

Columns == {"c", "d"}

\* The values a stored row may hold in each column.
ColumnValues(c) == IF c = "c" THEN {<<"1">>, <<Quote>>} ELSE {<<"1">>}

Rows ==
    UNION {{r \in [S -> {<<"1">>, <<Quote>>}] : \A c \in S : r[c] \in ColumnValues(c)}
              : S \in SUBSET Columns}

RowSeqs == UNION {[1..n -> Rows] : n \in 0..MaxRows}

TableNames == {<<"t">>, <<"T">>}

Tables == [name : TableNames, rows : RowSeqs]

Relations == {[relation |-> n] : n \in {<<"t">>, <<"T">>, <<"u">>}}

FromLists ==
    {<<>>} \cup {<<r>> : r \in Relations} \cup {<<r, s>> : r \in Relations, s \in Relations}

Identifiers == {Identifier(c) : c \in Columns}

Values == {Value(SingleQuotedString(s)) : s \in Strings} \cup {Value(Number(<<"1">>))}

Ops == {"Eq", "NotEq", "Lt", "And", "Or"}

\* One binary operation over leaves, in every operand shape.
LeafOps ==
    {BinaryOp(i, o, v) : i \in Identifiers, o \in Ops, v \in Values}
        \cup {BinaryOp(v, o, i) : v \in Values, o \in Ops, i \in Identifiers}
        \cup {BinaryOp(i, o, j) : i \in Identifiers, o \in Ops, j \in Identifiers}
        \cup {BinaryOp(v, o, v) : v \in Values, o \in Ops}

\* The comparisons the test queries use: column = 'literal'.
Atoms == {BinaryOp(Identifier(c), "Eq", Value(SingleQuotedString(<<"1">>))) : c \in Columns}

Grouped(S) == S \cup {Nested(e) : e \in S}

Logical(L, R) == {BinaryOp(l, o, r) : l \in L, o \in {"And", "Or"}, r \in R}

Formulas1 == Logical(Grouped(Atoms), Grouped(Atoms))

Formulas2 ==
    Logical(Grouped(Formulas1), {BinaryOp(Identifier("c"), "Eq", Value(SingleQuotedString(<<"1">>)))})

Predicates ==
    Identifiers \cup Values \cup LeafOps \cup Grouped(Atoms) \cup Grouped(Formulas1) \cup Formulas2

SomeAtom == BinaryOp(Identifier("d"), "Eq", Value(SingleQuotedString(<<"1">>)))

Items ==
    {Wildcard, ExprWithAlias(Identifier("c")), UnnamedExpr(Value(Number(<<"1">>)))}
        \cup {UnnamedExpr(i) : i \in Identifiers}

Projections == {<<i>> : i \in Items} \cup {<<i, j>> : i \in Items, j \in Items}

Ok(stmts) == [ok |-> TRUE, ast |-> stmts]

ParseError == [ok |-> FALSE, ast |-> <<>>]

\* Parse results that never reach the FROM checks.
NoSelect ==
    {ParseError, Ok(<<>>), Ok(<<[kind |-> "Other"]>>), Ok(<<Query([kind |-> "Values"])>>)}

\* SELECT * with every FROM list, to exercise the structural checks.
StructureQueries ==
    {Ok(<<Query(Select(f, <<Wildcard>>, s))>>) : f \in FromLists, s \in {<<>>, <<SomeAtom>>}}

\* Every projection over the table itself.
ProjectionQueries(t) ==
    {Ok(<<Query(Select(<<[relation |-> t.name]>>, p, s))>>)
        : p \in Projections, s \in {<<>>, <<SomeAtom>>}}

\* Every predicate over the table itself.
FilterQueries(t) ==
    {Ok(<<Query(Select(<<[relation |-> t.name]>>, <<Wildcard>>, <<e>>))>>) : e \in Predicates}

QueriesFor(t) == NoSelect \cup StructureQueries \cup ProjectionQueries(t) \cup FilterQueries(t)

-----------------------------------------------------------------------------
(* The state machine: one call of evaluate_query on chosen inputs.         *)

Init ==
    /\ table \in Tables
    /\ parsed \in QueriesFor(table)
    /\ pc = "called"
    /\ result = Invalid

EvaluateQuery ==
    /\ pc = "called"
    /\ result' = evaluate_query(table, parsed)
    /\ pc' = IF result'.panic THEN "panicked" ELSE "returned"
    /\ UNCHANGED <<table, parsed>>

Next == EvaluateQuery

Spec == Init /\ [][Next]_vars

-----------------------------------------------------------------------------
(* Vocabulary of the properties.                                           *)

Returned == pc = "returned"

IsSelect ==
    /\ parsed.ok
    /\ parsed.ast # <<>>
    /\ parsed.ast[1].kind = "Query"
    /\ parsed.ast[1].body.kind = "Select"

TheSelect == parsed.ast[1].body

\* Two names that differ at most in letter case.
SameLetter(a, b) == a = b \/ {a, b} = {"t", "T"} \/ {a, b} = {"u", "U"}

EqualIgnoreCase(a, b) ==
    Len(a) = Len(b) /\ \A i \in 1..Len(a) : SameLetter(a[i], b[i])

\* The three structural validation steps all pass.
StructureOk ==
    /\ IsSelect
    /\ TheSelect.from # <<>>
    /\ EqualIgnoreCase(TheSelect.from[1].relation, table.name)

\* SELECT * FROM <the table> WHERE <e>
StarWhere == StructureOk /\ TheSelect.projection = <<Wildcard>> /\ TheSelect.selection # <<>>

Where == TheSelect.selection[1]

\* col <o> 'X' for a quoted string literal X
IsCompare(e, o) ==
    /\ e.kind = "BinaryOp"
    /\ e.op = o
    /\ e.left.kind = "Identifier"
    /\ e.right.kind = "Value"
    /\ e.right.val.kind = "SingleQuotedString"

\* The row holds the column and its value is the literal's string.
RowEquals(e, r) == e.left.value \in DOMAIN r /\ r[e.left.value] = e.right.val.s

\* A WHERE clause built from col = 'X' comparisons, AND, OR and grouping.
RECURSIVE IsFormula(_)
IsFormula(e) ==
    CASE e.kind = "Nested" -> IsFormula(e.expr)
      [] e.kind = "BinaryOp" /\ e.op \in {"And", "Or"} ->
             IsFormula(e.left) /\ IsFormula(e.right)
      [] OTHER -> IsCompare(e, "Eq") /\ Quote \notin {e.right.val.s[i] : i \in 1..Len(e.right.val.s)}

\* The boolean value of such a clause for a row.
RECURSIVE Holds(_, _)
Holds(e, r) ==
    CASE e.kind = "Nested" -> Holds(e.expr, r)
      [] e.kind = "BinaryOp" /\ e.op = "And" -> Holds(e.left, r) /\ Holds(e.right, r)
      [] e.kind = "BinaryOp" /\ e.op = "Or" -> Holds(e.left, r) \/ Holds(e.right, r)
      [] OTHER -> RowEquals(e, r)

\* A predicate shape outside the supported grammar.
Unsupported(e) ==
    \/ e.kind # "BinaryOp"
    \/ /\ e.kind = "BinaryOp"
       /\ e.left.kind = "Identifier" /\ e.right.kind = "Value"
       /\ e.op \notin {"Eq", "NotEq"}
    \/ /\ e.kind = "BinaryOp"
       /\ ~(e.left.kind = "Identifier" /\ e.right.kind = "Value")
       /\ e.op \notin {"And", "Or"}

-----------------------------------------------------------------------------
(* The claims.                                                             *)

\* C1: a statement that passes the three structural validation steps is
\* reported valid, whatever number of rows survive the filter and whether or
\* not the projected columns exist.
C1_ValidWhenStructureOk ==
    (pc # "called" /\ StructureOk) => (Returned /\ result.valid)

\* C1 witness: a valid verdict for a non-empty table of which no row matched.
C1_Witness ==
    /\ Returned /\ StructureOk /\ result.valid
    /\ table.rows # <<>> /\ result.rows = <<>>
    /\ TheSelect.selection # <<>>

\* C2: a FROM relation that differs from the table's name by more than letter
\* case yields (empty, false); one that differs only in letter case is accepted.
C2_NameCompareIgnoresCase ==
    (pc # "called" /\ IsSelect /\ TheSelect.from # <<>>) =>
        IF EqualIgnoreCase(TheSelect.from[1].relation, table.name)
        THEN Returned /\ result.valid
        ELSE Returned /\ result = Invalid

\* C2 witness: a relation spelled in another letter case than the table's
\* name was accepted.
C2_Witness ==
    /\ Returned /\ IsSelect /\ TheSelect.from # <<>>
    /\ TheSelect.from[1].relation # table.name
    /\ EqualIgnoreCase(TheSelect.from[1].relation, table.name)
    /\ result.valid

\* C3: every call returns a (rows, valid) pair and never faults; a parse
\* failure, an empty statement list and a non-SELECT statement give
\* (empty, false).
C3_NeverFaults ==
    (pc # "called") => (Returned /\ (~IsSelect => result = Invalid))

\* C4: WHERE col = 'X' keeps exactly the rows that hold col with value X, in
\* table order.
C4_EqKeepsEqualRows ==
    (Returned /\ StarWhere /\ IsCompare(Where, "Eq")) =>
        LET Keep(r) == RowEquals(Where, r)
        IN  result.rows = SelectSeq(table.rows, Keep)

\* C5: WHERE col != 'X' keeps exactly the rows whose value for col differs
\* from X or that lack col.
C5_NotEqKeepsComplement ==
    (Returned /\ StarWhere /\ IsCompare(Where, "NotEq")) =>
        LET Keep(r) == ~RowEquals(Where, r)
        IN  result.rows = SelectSeq(table.rows, Keep)

\* C6: for a WHERE clause of comparisons combined with AND, OR and grouping,
\* a row is kept exactly when the boolean formula holds for it.
C6_FormulaDecidesRows ==
    (Returned /\ StarWhere /\ IsFormula(Where)) =>
        LET Keep(r) == Holds(Where, r)
        IN  result.rows = SelectSeq(table.rows, Keep)

\* C7: SELECT * FROM t without WHERE returns the rows of t, equal and in
\* order, with valid = true, and no step changes the table.
C7_SelectStarReturnsTable ==
    /\ [](  (Returned /\ StructureOk /\ TheSelect.projection = <<Wildcard>>
                /\ TheSelect.selection = <<>>)
            => (result.valid /\ result.rows = table.rows))
    /\ [][table' = table]_vars

\* C7 witness: SELECT * returned a table of two different rows.
C7_Witness ==
    /\ Returned /\ StructureOk
    /\ TheSelect.projection = <<Wildcard>> /\ TheSelect.selection = <<>>
    /\ Len(table.rows) >= 2 /\ table.rows[1] # table.rows[2]
    /\ result.rows = table.rows

\* The row SELECT c yields for the source row r.
Single(c, r) == IF c \in DOMAIN r THEN [x \in {c} |-> r[c]] ELSE EmptyRow

\* C8: SELECT c FROM t without WHERE returns one row per row of t, in order:
\* {c: r[c]} when r holds c and the empty mapping otherwise, with valid = true.
C8_SelectColumn ==
    (/\ Returned /\ StructureOk /\ TheSelect.selection = <<>>
     /\ Len(TheSelect.projection) = 1
     /\ TheSelect.projection[1].kind = "UnnamedExpr"
     /\ TheSelect.projection[1].expr.kind = "Identifier")
    => /\ result.valid
       /\ Len(result.rows) = Len(table.rows)
       /\ \A i \in 1..Len(table.rows) :
              result.rows[i] = Single(TheSelect.projection[1].expr.value, table.rows[i])

\* C8 witness: a column that no row holds gave as many empty rows as the
\* table has rows, and a valid verdict.
C8_Witness ==
    /\ Returned /\ StructureOk /\ TheSelect.selection = <<>>
    /\ TheSelect.projection = <<UnnamedExpr(Identifier("c"))>>
    /\ Len(table.rows) >= 2
    /\ \A i \in 1..Len(table.rows) : "c" \notin DOMAIN table.rows[i]
    /\ result.valid
    /\ Len(result.rows) = Len(table.rows)
    /\ \A i \in 1..Len(result.rows) : result.rows[i] = EmptyRow

\* C9: a SELECT whose FROM clause does not name exactly one relation yields
\* (empty, false).
C9_ExactlyOneRelation ==
    (pc # "called" /\ IsSelect /\ Len(TheSelect.from) # 1) => (Returned /\ result = Invalid)

\* C10: evaluate_condition yields a boolean for every predicate and row, and
\* false for every shape outside the supported grammar; such a predicate
\* excludes every row while the query stays valid.
C10_FailClosed ==
    (Returned /\ StructureOk /\ TheSelect.selection # <<>>) =>
        /\ \A i \in 1..Len(table.rows) : evaluate_condition(Where, table.rows[i]) \in BOOLEAN
        /\ Unsupported(Where) =>
               /\ \A i \in 1..Len(table.rows) : ~evaluate_condition(Where, table.rows[i])
               /\ result.rows = <<>>
               /\ result.valid

\* C10 witness: a comparison with the literal on the left and the column on
\* the right, true of a stored row if read symmetrically, excluded that row.
C10_Witness ==
    /\ Returned /\ StructureOk /\ TheSelect.selection # <<>>
    /\ Where = BinaryOp(Value(SingleQuotedString(<<"1">>)), "Eq", Identifier("c"))
    /\ \E i \in 1..Len(table.rows) :
           "c" \in DOMAIN table.rows[i] /\ table.rows[i]["c"] = <<"1">>
    /\ result.rows = <<>>
    /\ result.valid

====
